---- MODULE Spec2Model ----
(***************************************************************************)
(* Verification model of bert_concept_embeddings:                          *)
(*   - ConceptTokenizer and BatchGeneratorVisitBased                       *)
(*     (bert_data_generator.py),                                           *)
(*   - TimeAttention.call (custom_layers.py),                              *)
(*   - transformer_bert_model (model.py).                                  *)
(* Python indices are 0-based; TLA+ sequences are 1-based, so the corpus   *)
(* element at Python index i is concept_sequences[i + 1].                  *)
(***************************************************************************)
EXTENDS Integers, Sequences, FiniteSets, TLC

VARIABLES
    tokenizer,               \* ConceptTokenizer: [word_index], the fitted vocabulary
    gen,                     \* BatchGeneratorVisitBased: the fields __init__ sets once
    concept_sequences,       \* self.concept_sequences, the corpus of id sequences
    index,                   \* self.index, the cursor of generate_batches
    concept_sequence_batch,  \* Python indices taken by the islice of the last batch
    yielded,                 \* the last item generate_batches yielded, or NoBatch
    resumed,                 \* how many times generate_batches was resumed, modulo 2
    draws,                   \* SpecSamples: the random draws generate_samples consumed
    results,                 \* SpecSamples: what generate_samples returned, or NotCalled
    model_args,              \* SpecModel: the arguments of transformer_bert_model
    model,                   \* SpecModel: what transformer_bert_model returned or raised
    layer,                   \* SpecTime: the TimeAttention layer, its weights included
    inputs,                  \* SpecTime: the inputs of TimeAttention.call
    attention                \* SpecTime: locals and result of TimeAttention.call

vars == <<tokenizer, gen, concept_sequences, index, concept_sequence_batch,
          yielded, resumed, draws, results, model_args, model, layer, inputs,
          attention>>

generator_vars == <<tokenizer, gen, concept_sequences, index,
                    concept_sequence_batch, yielded, resumed, draws, results>>
model_vars == <<model_args, model>>
time_vars == <<layer, inputs, attention>>

-----------------------------------------------------------------------------
(* Bounds of the model.                                                    *)

\* corpus sizes 1..MaxN
MaxN == 3
\* batch sizes 1..MaxB
MaxB == 2
\* max_sequence_length: every corpus sequence is padded to this length
MaxLen == 2
\* generate_batches: how many positions of one batch draw r1 < 0.15.  The
\* draws of a whole sequence are explored without this limit by SpecSamples.
SelectedPerBatch == {0, 1}

\* transformer_bert_model: d_model and num_heads range over 1..MaxDModel
MaxDModel == 4
\* TimeAttention: the constructor's time_window_size ranges over 1..MaxWindow
MaxWindow == 3
\* TimeAttention: time stamps range over 0..MaxTime
MaxTime == 2

\* The concept vocabulary of the raw corpus.
Words == {"a", "b"}

\* No item yet: generate_batches has not been resumed.
NoBatch == [kind |-> "none", inputs |-> <<>>, targets |-> <<>>]

\* generate_samples, transformer_bert_model or TimeAttention.call has not
\* been called.
NotCalled == <<>>

-----------------------------------------------------------------------------
(* Small helpers.                                                          *)

Min(S) == CHOOSE x \in S : \A y \in S : x <= y
Max(S) == CHOOSE x \in S : \A y \in S : x >= y

RECURSIVE Flatten(_)
Flatten(seqs) ==
    IF seqs = <<>> THEN <<>> ELSE Head(seqs) \o Flatten(Tail(seqs))

Range(f) == {f[x] : x \in DOMAIN f}

-----------------------------------------------------------------------------
(* ConceptTokenizer (keras Tokenizer with oov_token, filters='',           *)
(* lower=False): fit_on_texts counts the words, and rebuilds word_index as *)
(* the oov token followed by the words in descending count, ties in order  *)
(* of first occurrence (a stable sort), numbered from 1.                   *)

BERT_SPECIAL_TOKENS == <<"[MASK]", "[UNUSED]">>

oov_token == "0"

WordCount(w, stream) == Cardinality({i \in DOMAIN stream : stream[i] = w})

FirstOccurrence(w, stream) == Min({i \in DOMAIN stream : stream[i] = w})

\* Position of w in the list sorted by count, descending and stable.
SortedPosition(w, stream) ==
    1 + Cardinality({v \in Range(stream) :
            \/ WordCount(v, stream) > WordCount(w, stream)
            \/ /\ WordCount(v, stream) = WordCount(w, stream)
               /\ FirstOccurrence(v, stream) < FirstOccurrence(w, stream)})

\* Tokenizer.fit_on_texts over everything fitted so far: word -> id.
fit_on_texts(stream) ==
    [w \in Range(stream) \cup {oov_token} |->
        IF w = oov_token THEN 1 ELSE 1 + SortedPosition(w, stream)]

\* ConceptTokenizer.fit_on_concept_sequences: the corpus, then the special
\* tokens when there are any.
fit_on_concept_sequences(texts, special_tokens) ==
    [word_index |-> fit_on_texts(Flatten(texts) \o special_tokens)]

\* ConceptTokenizer.encode: texts_to_sequences, unknown words get the oov id.
encode(tok, texts) ==
    [i \in DOMAIN texts |->
        [j \in DOMAIN texts[i] |->
            IF texts[i][j] \in DOMAIN tok.word_index
            THEN tok.word_index[texts[i][j]]
            ELSE tok.word_index[oov_token]]]

\* The keys of index_word are the ids word_index assigns.
get_first_token_index(tok) == Min(Range(tok.word_index))

get_last_token_index(tok) == Max(Range(tok.word_index))

get_vocab_size(tok) == Cardinality(Range(tok.word_index))

-----------------------------------------------------------------------------
(* The corpus handed to the generator: encoded visits, padded with the     *)
(* unused id to max_sequence_length.                                       *)

PadSequence(seq, length, pad) ==
    [i \in 1..length |-> IF i <= Len(seq) THEN seq[i] ELSE pad]

OtherWord(w) == CHOOSE v \in Words : v # w

\* A raw visit of n concepts alternating between the two words.
RawVisit(n, w) ==
    [i \in 1..n |-> IF i % 2 = 1 THEN w ELSE OtherWord(w)]

\* The raw corpora the model draws from: n visits whose lengths cycle
\* through 0..MaxLen from `shift` on, the first word alternating from w on.
RawCorpus(n, shift, w) ==
    [i \in 1..n |->
        RawVisit((i - 1 + shift) % (MaxLen + 1),
                 IF i % 2 = 1 THEN w ELSE OtherWord(w))]

-----------------------------------------------------------------------------
(* BatchGeneratorVisitBased.__init__                                       *)

BatchGenerator(sequences, mask_token_id, unused_token_id, max_sequence_length, batch_size, first_normal_token_id, last_normal_token_id) ==
    [data_size           |-> Len(sequences),
     steps_per_epoch     |-> Len(sequences) \div batch_size,
     batch_size          |-> batch_size,
     max_sequence_length |-> max_sequence_length,
     mask_token_id       |-> mask_token_id,
     unused_token_id     |-> unused_token_id,
     first_token_id      |-> first_normal_token_id,
     last_token_id       |-> last_normal_token_id]

-----------------------------------------------------------------------------
(* The random source.  random.random() is modelled in hundredths, at the   *)
(* values on both sides of each threshold the code compares it with; a     *)
(* tape gives, for every position of every sequence of a batch, the values *)
(* the draws made there return: r1 (line 135), dice (line 136) and rnd     *)
(* (random.randint, line 140).  Draws the code does not make at a position *)
(* are fixed to the last value, so that equal outcomes are not told apart. *)

SelectThreshold == 15
MaskThreshold == 80
RandomThreshold == 90

DiceDraws == {MaskThreshold - 1, MaskThreshold,
              RandomThreshold - 1, RandomThreshold}

\* random.randint(a, b): any integer from a to b, both included.
randint(a, b) == a..b

NotSelectedDraw(g) ==
    [r1 |-> SelectThreshold, dice |-> RandomThreshold, rnd |-> g.last_token_id]

SelectedDraws(g) ==
    {[r1 |-> SelectThreshold - 1, dice |-> d, rnd |-> t] :
        d \in {x \in DiceDraws : MaskThreshold <= x /\ x < RandomThreshold},
        t \in randint(g.first_token_id, g.last_token_id)}
    \cup
    {[r1 |-> SelectThreshold - 1, dice |-> d, rnd |-> g.last_token_id] :
        d \in {x \in DiceDraws : x < MaskThreshold \/ x >= RandomThreshold}}

PositionDraws(g) == SelectedDraws(g) \cup {NotSelectedDraw(g)}

BatchPositions(batch) ==
    {<<k, p>> : k \in DOMAIN batch, p \in 1..MaxLen}

\* Every tape of a batch.
FullTapes(g, batch) ==
    [DOMAIN batch -> [1..MaxLen -> PositionDraws(g)]]

\* The sets of positions of a batch that generate_batches lets the draws
\* select.
SelectedSets(batch) ==
    {T \in SUBSET BatchPositions(batch) : Cardinality(T) \in SelectedPerBatch}

\* The tape that selects the positions of S with the draws `choice` gives.
TapeOf(g, batch, S, choice) ==
    [k \in DOMAIN batch |-> [p \in 1..MaxLen |->
        IF <<k, p>> \in S THEN choice[<<k, p>>] ELSE NotSelectedDraw(g)]]

-----------------------------------------------------------------------------
(* BatchGeneratorVisitBased.generate_samples                               *)

\* Faulty variant of copy: masked_sequence is the corpus object itself.
copy_alias(sequence) == [shares |-> TRUE, ids |-> sequence]

\* sequence.copy(): a new object, so a write to it does not reach the corpus.
copy(sequence) == [shares |-> FALSE, ids |-> sequence]

\* Faulty variant of StopsScan: the scan runs over the padding too.
StopsScanNever(g, token) == FALSE

\* line 133: the scan stops at the first unused token.
StopsScan(g, token) == token = g.unused_token_id

\* line 135
IsSelected(d) == d.r1 < SelectThreshold

\* Faulty variant of MaskedToken: the thresholds compared with <= instead of <.
MaskedTokenInclusive(g, token, d) ==
    IF d.dice <= MaskThreshold THEN g.mask_token_id
    ELSE IF d.dice <= RandomThreshold THEN d.rnd
    ELSE token

\* lines 136-141: what a selected position holds in masked_sequence.
MaskedToken(g, token, d) ==
    IF d.dice < MaskThreshold THEN g.mask_token_id
    ELSE IF d.dice < RandomThreshold THEN d.rnd
    ELSE token

\* Faulty variant of MarksOutput: line 143 indented under the [MASK] branch.
MarksOutputOnlyMasked(d) == d.dice < MaskThreshold

\* line 143: every selected position is marked in output_mask.
MarksOutput(d) == TRUE

\* The loop of lines 131-143 from word_pos (1-based) on.  `sequence` is the
\* corpus object, `masked` its copy; a write to the copy reaches the corpus
\* object only if the two share their storage.
RECURSIVE ScanFrom(_, _, _, _, _, _)
ScanFrom(g, sequence, tape, word_pos, masked, output_mask) ==
    IF word_pos > Len(sequence) \/ StopsScan(g, sequence[word_pos])
    THEN <<output_mask, sequence, masked.ids>>
    ELSE IF IsSelected(tape[word_pos])
    THEN LET token == MaskedToken(g, masked.ids[word_pos], tape[word_pos])
             written == [masked EXCEPT !.ids[word_pos] = token]
             seen == IF masked.shares
                     THEN [sequence EXCEPT ![word_pos] = token]
                     ELSE sequence
             marked == IF MarksOutput(tape[word_pos])
                       THEN [output_mask EXCEPT ![word_pos] = 1]
                       ELSE output_mask
         IN  ScanFrom(g, seen, tape, word_pos + 1, written, marked)
    ELSE ScanFrom(g, sequence, tape, word_pos + 1, masked, output_mask)

\* lines 128-144 for one sequence: (output_mask, sequence, masked_sequence).
generate_sample(g, sequence, tape) ==
    ScanFrom(g, sequence, tape, 1, copy(sequence),
             [i \in 1..Len(sequence) |-> 0])

\* lines 125-146: one sample per sequence of the batch, in order.
generate_samples(g, batch, tapes) ==
    [k \in DOMAIN batch |-> generate_sample(g, batch[k], tapes[k])]

-----------------------------------------------------------------------------
(* BatchGeneratorVisitBased.generate_batches                               *)

\* itertools.islice(iterable of n items, start, stop): the Python indices
\* start .. stop-1 that exist.
islice(n, start, stop) ==
    [k \in 1..(IF stop <= n THEN stop - start
               ELSE IF start < n THEN n - start ELSE 0) |-> start + k - 1]

\* Faulty variant of CursorStart: the cursor wraps only once it is past the end.
CursorStartPastEnd(g, i) == IF i > g.data_size THEN 0 ELSE i

\* lines 103-104: where the next batch starts.
CursorStart(g, i) == IF i >= g.data_size THEN 0 ELSE i

\* Faulty variant of CursorAfter: the cursor is not advanced.
CursorAfterStuck(g, start) == start

\* line 107
CursorAfter(g, start) == start + g.batch_size

\* line 113: np.stack([sequence, mask], axis=-1), of shape (batch, seq_len, 2).
combined_label(samples) ==
    [k \in DOMAIN samples |->
        [i \in DOMAIN samples[k][2] |-> <<samples[k][2][i], samples[k][1][i]>>]]

\* lines 115-118: the yielded (inputs, targets).
YieldedItem(samples) ==
    [kind    |-> "batch",
     inputs  |-> << [k \in DOMAIN samples |-> samples[k][3]] >>,
     targets |-> << combined_label(samples) >>]

\* line 111: zip(*[]) unpacks into nothing, and the assignment raises.
Raised == [kind |-> "ValueError", inputs |-> <<>>, targets |-> <<>>]

-----------------------------------------------------------------------------
(* The corpus is tokenized, encoded, padded and handed to the generator.   *)

Setup(n, shift, w, batch_size) ==
    LET texts == RawCorpus(n, shift, w)
        tok == fit_on_concept_sequences(texts, BERT_SPECIAL_TOKENS)
        unused == tok.word_index[BERT_SPECIAL_TOKENS[2]]
        encoded == encode(tok, texts)
        padded == [i \in 1..n |-> PadSequence(encoded[i], MaxLen, unused)]
    IN  /\ tokenizer = tok
        /\ concept_sequences = padded
        /\ gen = BatchGenerator(padded, tok.word_index[BERT_SPECIAL_TOKENS[1]],
                                unused, MaxLen, batch_size,
                                get_first_token_index(tok),
                                get_last_token_index(tok))
        /\ index = 0
        /\ concept_sequence_batch = <<>>
        /\ yielded = NoBatch
        /\ resumed = 0
        /\ draws = NotCalled
        /\ results = NotCalled

\* The parts of the state a specification does not use stay as they are here.
ModelIdle == model_args = NotCalled /\ model = NotCalled

TimeIdle == layer = NotCalled /\ inputs = NotCalled /\ attention = NotCalled

GeneratorIdle ==
    /\ tokenizer = NotCalled /\ gen = NotCalled /\ concept_sequences = <<>>
    /\ index = 0 /\ concept_sequence_batch = <<>> /\ yielded = NoBatch
    /\ resumed = 0 /\ draws = NotCalled /\ results = NotCalled

Init ==
    /\ \E n \in 1..MaxN, shift \in 0..MaxLen, w \in Words, batch_size \in 1..MaxB :
          Setup(n, shift, w, batch_size)
    /\ ModelIdle
    /\ TimeIdle

\* The corpus after generate_samples ran over the sequences at `positions`.
CorpusAfter(corpus, positions, samples) ==
    [i \in DOMAIN corpus |->
        IF \E k \in DOMAIN positions : positions[k] + 1 = i
        THEN samples[Max({k \in DOMAIN positions : positions[k] + 1 = i})][2]
        ELSE corpus[i]]

\* One next() on generate_batches: lines 103-118.
NextBatch ==
    /\ yielded # Raised
    /\ LET start == CursorStart(gen, index)
           positions == islice(gen.data_size, start, start + gen.batch_size)
           batch == [k \in DOMAIN positions |-> concept_sequences[positions[k] + 1]]
       IN  \E S \in SelectedSets(batch) : \E choice \in [S -> SelectedDraws(gen)] :
             LET samples == generate_samples(gen, batch, TapeOf(gen, batch, S, choice))
             IN  /\ index' = CursorAfter(gen, start)
                 /\ concept_sequence_batch' = positions
                 /\ concept_sequences' = CorpusAfter(concept_sequences, positions, samples)
                 /\ yielded' = IF samples = <<>> THEN Raised ELSE YieldedItem(samples)
    /\ resumed' = (resumed + 1) % 2
    /\ UNCHANGED <<tokenizer, gen, draws, results, model_vars, time_vars>>

Next == NextBatch

Spec == Init /\ [][Next]_vars

\* The training loop pulls a batch at every step.
LiveSpec == Spec /\ WF_vars(NextBatch)

-----------------------------------------------------------------------------
(* generate_samples as a function of the sequence and the random draws.    *)

InitSamples ==
    /\ \E shift \in 0..MaxLen, w \in Words : Setup(1, shift, w, 1)
    /\ ModelIdle
    /\ TimeIdle

GenerateSamples ==
    /\ results = NotCalled
    /\ \E tapes \in FullTapes(gen, concept_sequences) :
         LET samples == generate_samples(gen, concept_sequences, tapes)
         IN  /\ results' = samples
             /\ draws' = tapes
             /\ concept_sequences' =
                    CorpusAfter(concept_sequences,
                                [k \in DOMAIN concept_sequences |-> k - 1], samples)
    /\ UNCHANGED <<tokenizer, gen, index, concept_sequence_batch, yielded, resumed,
                   model_vars, time_vars>>

NextSamples == GenerateSamples

SpecSamples == InitSamples /\ [][NextSamples]_vars

-----------------------------------------------------------------------------
(* TimeAttention.__init__ (custom_layers.py).  A Python call binds the      *)
(* keyword arguments to the parameters; a required parameter left without  *)
(* an argument is a TypeError, and so is a keyword that neither __init__   *)
(* nor the Keras Layer it forwards **kwargs to knows.                      *)

TimeAttentionRequired ==
    {"vocab_size", "target_seq_len", "context_seq_len", "time_window_size"}

TimeAttentionOptional == {"return_logits"}

\* Keywords tf.keras.layers.Layer.__init__ accepts.
LayerKeywords == {"name", "dtype", "trainable", "dynamic"}

MissingArguments(required, kwargs) == required \ DOMAIN kwargs

UnknownKeywords(kwargs) ==
    DOMAIN kwargs \ (TimeAttentionRequired \cup TimeAttentionOptional
                     \cup LayerKeywords)

\* lines 196-199
HalfWindowSize(time_window_size) == time_window_size \div 2

FullWindowSize(half_window_size) == half_window_size * 2 + 1

TimeAttentionInit(kwargs) ==
    IF \/ MissingArguments(TimeAttentionRequired, kwargs) # {}
       \/ UnknownKeywords(kwargs) # {}
    THEN [error |-> "TypeError"]
    ELSE [error            |-> "none",
          vocab_size       |-> kwargs.vocab_size,
          target_seq_len   |-> kwargs.target_seq_len,
          context_seq_len  |-> kwargs.context_seq_len,
          half_window_size |-> HalfWindowSize(kwargs.time_window_size),
          time_window_size |-> FullWindowSize(HalfWindowSize(kwargs.time_window_size)),
          return_logits    |-> IF "return_logits" \in DOMAIN kwargs
                               THEN kwargs.return_logits ELSE FALSE]

-----------------------------------------------------------------------------
(* transformer_bert_model (model.py): the statements that can raise while  *)
(* the graph is built, in the order they run.                              *)

\* line 62: the keyword arguments the model passes to TimeAttention.
TimeEmbeddingArguments(args) ==
    [vocab_size |-> args.vocabulary_size, seq_len |-> args.max_seq_length]

\* line 79 calls the layer with three positional tensors; TimeAttention.call
\* (custom_layers.py line 217) takes the single parameter `inputs`.
TimeAttentionCallParameters == 1

TimeEmbeddingCallArguments == <<"concept_ids", "time_stamps", "time_mask">>

\* custom_layers.py line 62, reached by the first EncoderLayer of the loop.
HeadsDivide(args) == args.d_model % args.num_heads = 0

\* EncoderLayer.call returns the pair (out2, attn_weights), which line 82
\* feeds back whole as the next layer's x and line 90 as the embedding input.
EncoderLayerOutputs == <<"out2", "attn_weights">>

Raises(error) == [error |-> error, inputs |-> <<>>, outputs |-> <<>>]

transformer_bert_model(args) ==
    IF TimeAttentionInit(TimeEmbeddingArguments(args)).error # "none"
    THEN Raises("TypeError")
    ELSE IF Len(TimeEmbeddingCallArguments) # TimeAttentionCallParameters
    THEN Raises("TypeError")
    ELSE IF args.d_model > 0 /\ ~HeadsDivide(args)
    THEN Raises("AssertionError")
    ELSE IF args.d_model > 0 /\ Len(EncoderLayerOutputs) # 1
    THEN Raises("TypeError")
    ELSE [error   |-> "none",
          inputs  |-> <<"concept_ids", "time_stamps", "mask">>,
          outputs |-> <<"concept_predictions">>]

\* The vocabulary sizes a fitted tokenizer reports: the oov token, the two
\* special tokens and the words of the corpus.
VocabularySizes == 3..(3 + Cardinality(Words))

InitModel ==
    /\ \E max_seq_length \in 1..MaxLen, vocabulary_size \in VocabularySizes,
          d_model \in 1..MaxDModel, num_heads \in 1..MaxDModel :
          model_args = [max_seq_length         |-> max_seq_length,
                        vocabulary_size        |-> vocabulary_size,
                        concept_embedding_size |-> d_model,
                        d_model                |-> d_model,
                        num_heads              |-> num_heads]
    /\ model = NotCalled
    /\ GeneratorIdle
    /\ TimeIdle

BuildModel ==
    /\ model = NotCalled
    /\ model' = transformer_bert_model(model_args)
    /\ UNCHANGED <<model_args, generator_vars, time_vars>>

NextModel == BuildModel

SpecModel == InitModel /\ [][NextModel]_vars

-----------------------------------------------------------------------------
(* Exact fractions <<numerator, denominator>>, the denominator positive    *)
(* and the fraction in lowest terms: the tensors of TimeAttention.call are *)
(* floats, modelled without rounding.                                      *)

Abs(x) == IF x < 0 THEN -x ELSE x

RECURSIVE Gcd(_, _)
Gcd(a, b) == IF b = 0 THEN a ELSE Gcd(b, a % b)

Frac(n, d) ==
    LET g == Gcd(Abs(n), Abs(d))
        sign == IF d < 0 THEN -1 ELSE 1
    IN  <<sign * (n \div g), sign * (d \div g)>>

FracAdd(x, y) == Frac(x[1] * y[2] + y[1] * x[2], x[2] * y[2])

FracScale(k, x) == Frac(k * x[1], x[2])

RECURSIVE FracSum(_)
FracSum(xs) == IF xs = <<>> THEN Frac(0, 1) ELSE FracAdd(Head(xs), FracSum(Tail(xs)))

RECURSIVE IntSum(_)
IntSum(xs) == IF xs = <<>> THEN 0 ELSE Head(xs) + IntSum(Tail(xs))

-----------------------------------------------------------------------------
(* TimeAttention.call (custom_layers.py lines 217-262), for one element of *)
(* the batch.  Tensors are 1-based sequences; bucket b of the code is      *)
(* element b + 1 of a vector over the time window.                         *)

\* line 230: the rows of the embedding matrix for the target concepts.
embedding_layer(embeddings, target_concepts) ==
    [t \in DOMAIN target_concepts |-> embeddings[target_concepts[t]]]

\* lines 233-238: tile the context time stamps target_seq_len times,
\* subtract the target time stamps, and transpose to (target, context).
time_delta(l, target_time_stamps, context_time_stamps) ==
    LET multiplied == [c \in DOMAIN context_time_stamps |->
                          [t \in 1..l.target_seq_len |-> context_time_stamps[c]]]
        difference == [c \in DOMAIN context_time_stamps |->
                          [t \in 1..l.target_seq_len |->
                              multiplied[c][t] - target_time_stamps[t]]]
    IN  [t \in 1..l.target_seq_len |->
            [c \in DOMAIN context_time_stamps |-> difference[c][t]]]

\* Faulty variant of clip_by_value: the time delta is not clipped.
clip_by_value_none(x, clip_value_min, clip_value_max) == x

\* tf.clip_by_value
clip_by_value(x, clip_value_min, clip_value_max) ==
    IF x < clip_value_min THEN clip_value_min
    ELSE IF x > clip_value_max THEN clip_value_max ELSE x

\* tf.one_hot(i, depth): all zeros when i is outside 0..depth-1.
one_hot(i, depth) == [b \in 1..depth |-> IF b = i + 1 THEN 1 ELSE 0]

\* lines 242-245
time_delta_one_hot(l, delta) ==
    [t \in DOMAIN delta |-> [c \in DOMAIN delta[t] |->
        one_hot(clip_by_value(delta[t][c], -l.half_window_size, l.half_window_size)
                    + l.half_window_size,
                l.time_window_size)]]

\* Faulty variant of reduce_sum: the sum also runs over the buckets.
reduce_sum_all(hot) ==
    [t \in DOMAIN hot |-> [b \in DOMAIN hot[t][1] |-> Len(hot[t])]]

\* tf.reduce_sum(one_hot, axis=2): per target and bucket, over the contexts.
reduce_sum(hot) ==
    [t \in DOMAIN hot |-> [b \in DOMAIN hot[t][1] |->
        IntSum([c \in DOMAIN hot[t] |-> hot[t][c][b]])]]

\* tf.math.divide_no_nan: 0 where the divisor is 0.
divide_no_nan(x, y) == IF y = 0 THEN Frac(0, 1) ELSE Frac(x, y)

\* lines 248-249
normalized_concept_time_attentions(concept_time_embeddings, hot) ==
    LET counts == reduce_sum(hot)
    IN  [t \in DOMAIN hot |-> [b \in DOMAIN counts[t] |->
            divide_no_nan(concept_time_embeddings[t][b], counts[t][b])]]

\* lines 252-256: matmul of the one-hot rows with the normalized column.
next_input(hot, normalized) ==
    [t \in DOMAIN hot |-> [c \in DOMAIN hot[t] |->
        FracSum([b \in DOMAIN hot[t][c] |->
                    FracScale(hot[t][c][b], normalized[t][b])])]]

\* lines 259-260: -1e9 is added where the mask is set; the sum is kept as
\* the pair of the bias and the number of times -1e9 was added.
add_mask(bias, time_mask) ==
    [t \in DOMAIN bias |-> [c \in DOMAIN bias[t] |->
        [bias |-> bias[t][c], minus_1e9 |-> time_mask[c]]]]

\* line 262: the logits, or their softmax over the context axis (kept as a
\* term: the exponentials are not computed).
returned(l, logits) ==
    IF l.return_logits THEN [logits |-> logits]
    ELSE [softmax |-> logits]

call(l, in) ==
    LET concept_time_embeddings == embedding_layer(l.embeddings, in.target_concepts)
        delta == time_delta(l, in.target_time_stamps, in.context_time_stamps)
        hot == time_delta_one_hot(l, delta)
        normalized == normalized_concept_time_attentions(concept_time_embeddings, hot)
        bias == next_input(hot, normalized)
    IN  [time_delta_one_hot |-> hot,
         normalized_concept_time_attentions |-> normalized,
         next_input |-> bias,
         returned |-> returned(l, add_mask(bias, in.time_mask))]

\* The weights of the embedding: zero as initialized (line 204) when scale
\* is 0, otherwise trained values, distinct per concept and bucket.
Embeddings(scale, vocab_size, time_window_size) ==
    [concept \in 0..(vocab_size - 1) |->
        [b \in 1..time_window_size |-> scale * (time_window_size * concept + b)]]

EmbeddingScales == {0, 1, -2}

\* Time stamps of a sequence of visits, in chronological order.
TimeStamps(n) ==
    {ts \in [1..n -> 0..MaxTime] : \A i \in 1..(n - 1) : ts[i] <= ts[i + 1]}

\* Validity masks: nothing masked, or the padding at the end of the context.
TimeMasks(n) == {[c \in 1..n |-> IF c > valid THEN 1 ELSE 0] : valid \in (n - 1)..n}

InitTime ==
    /\ \E time_window_size \in 1..MaxWindow,
          target_seq_len \in 1..MaxLen, context_seq_len \in 1..MaxLen,
          return_logits \in BOOLEAN, scale \in EmbeddingScales :
          LET l == TimeAttentionInit(
                       [vocab_size       |-> Cardinality(Words),
                        target_seq_len   |-> target_seq_len,
                        context_seq_len  |-> context_seq_len,
                        time_window_size |-> time_window_size,
                        return_logits    |-> return_logits])
          IN  /\ layer = [embeddings |->
                             Embeddings(scale, l.vocab_size, l.time_window_size),
                          \* the constructor's argument, kept beside the
                          \* fields __init__ derives from it
                          time_window_size_argument |-> time_window_size]
                         @@ l
              /\ \E target_concepts \in [1..target_seq_len -> 0..(l.vocab_size - 1)],
                    target_time_stamps \in TimeStamps(target_seq_len),
                    context_time_stamps \in TimeStamps(context_seq_len),
                    time_mask \in TimeMasks(context_seq_len) :
                    inputs = [target_concepts     |-> target_concepts,
                              target_time_stamps  |-> target_time_stamps,
                              context_time_stamps |-> context_time_stamps,
                              time_mask           |-> time_mask]
    /\ attention = NotCalled
    /\ GeneratorIdle
    /\ ModelIdle

Call ==
    /\ attention = NotCalled
    /\ attention' = call(layer, inputs)
    /\ UNCHANGED <<layer, inputs, generator_vars, model_vars>>

NextTime == Call

SpecTime == InitTime /\ [][NextTime]_vars

-----------------------------------------------------------------------------
(* Properties of generate_batches (Spec, LiveSpec).                        *)

\* The sequences a yielded item carries: channel 0 of the combined label.
YieldedSequences ==
    [k \in DOMAIN yielded.targets[1] |->
        [i \in DOMAIN yielded.targets[1][k] |-> yielded.targets[1][k][i][1]]]

C2_FullBatches ==
    yielded.kind = "batch" =>
        /\ Len(yielded.inputs[1]) = gen.batch_size
        /\ Len(yielded.targets[1]) = gen.batch_size

\* C5 (as claimed): inputs is a one-element list, targets the two-element
\* list [combined_label, has_next] with has_next of shape (batch, 1).
C5_TargetsHaveHasNext ==
    yielded.kind = "batch" =>
        /\ Len(yielded.inputs) = 1
        /\ Len(yielded.targets) = 2
        /\ Len(yielded.targets[2]) = Len(yielded.inputs[1])
        /\ \A k \in DOMAIN yielded.targets[2] : Len(yielded.targets[2][k]) = 1

\* C6: the generator never raises and can always be resumed, every batch is
\* non-empty, and every corpus sequence is in a batch infinitely often.
C6_EndlessCoverage ==
    /\ [](yielded.kind # "ValueError")
    /\ [](ENABLED <<NextBatch>>_vars)
    /\ [](yielded.kind = "batch" => Len(yielded.inputs[1]) >= 1)
    /\ \A i \in 0..(MaxN - 1) :
         []<>(i < gen.data_size =>
                /\ yielded.kind = "batch"
                /\ \E k \in DOMAIN concept_sequence_batch : concept_sequence_batch[k] = i)

\* C6 witness: a batch size larger than the corpus, after a second batch.
C6_Witness ==
    /\ gen.batch_size > gen.data_size
    /\ yielded.kind = "batch"
    /\ resumed = 0
    /\ index = gen.batch_size

-----------------------------------------------------------------------------
(* Properties of generate_samples (SpecSamples).                           *)

\* Whether position i of sample k is at or after the first unused token.
AtOrAfterPadding(k, i) ==
    \E j \in 1..i : results[k][2][j] = gen.unused_token_id

\* C3: output_mask is 1 only strictly before the first unused token; from
\* the first unused token on, output_mask is 0 and masked_sequence holds
\* the original ids.
C3_PaddingNeverMasked ==
    \A k \in DOMAIN results : \A i \in DOMAIN results[k][2] :
        AtOrAfterPadding(k, i) =>
            /\ results[k][1][i] = 0
            /\ results[k][3][i] = results[k][2][i]

\* C3 witness: the draws would have selected a padding position, and a
\* position before the padding was selected.
C3_Witness ==
    \E k \in DOMAIN results : \E i, j \in DOMAIN results[k][2] :
        /\ j < i
        /\ results[k][2][i] = gen.unused_token_id
        /\ IsSelected(draws[k][i])
        /\ results[k][1][j] = 1

\* C4: masked_sequence differs from the sequence only where output_mask is 1.
C4_DiffersOnlyWhereMasked ==
    \A k \in DOMAIN results : \A i \in DOMAIN results[k][2] :
        results[k][3][i] # results[k][2][i] => results[k][1][i] = 1

\* C4 witness: one position was rewritten, another selected and left as is.
C4_Witness ==
    \E k \in DOMAIN results : \E i, j \in DOMAIN results[k][2] :
        /\ results[k][3][i] # results[k][2][i]
        /\ results[k][1][j] = 1
        /\ results[k][3][j] = results[k][2][j]

\* Position i of sample k was rewritten by the random-replacement branch.
RandomlyReplaced(k, i) ==
    /\ ~AtOrAfterPadding(k, i)
    /\ IsSelected(draws[k][i])
    /\ MaskThreshold <= draws[k][i].dice
    /\ draws[k][i].dice < RandomThreshold

\* C7 (as claimed): a randomly replaced position holds an id of
\* first_token_id..last_token_id that is neither the mask id nor the
\* unused id.
C7_SpecialsNeverSubstituted ==
    \A k \in DOMAIN results : \A i \in DOMAIN results[k][2] :
        RandomlyReplaced(k, i) =>
            /\ results[k][3][i] \in gen.first_token_id .. gen.last_token_id
            /\ results[k][3][i] # gen.mask_token_id
            /\ results[k][3][i] # gen.unused_token_id

\* C9: at a scanned position, r1 >= 0.15 keeps the token with output_mask
\* 0; r1 < 0.15 sets output_mask to 1 and writes the mask id when
\* dice < 0.8, the id randint drew from first..last when 0.8 <= dice < 0.9,
\* and leaves the token when dice >= 0.9.
C9_BranchPerDraw ==
    \A k \in DOMAIN results : \A i \in DOMAIN results[k][2] :
        ~AtOrAfterPadding(k, i) =>
            LET d == draws[k][i]
                token == results[k][2][i]
                out == results[k][3][i]
                bit == results[k][1][i]
            IN  /\ d.r1 >= SelectThreshold => (out = token /\ bit = 0)
                /\ d.r1 < SelectThreshold =>
                     /\ bit = 1
                     /\ d.dice < MaskThreshold => out = gen.mask_token_id
                     /\ (MaskThreshold <= d.dice /\ d.dice < RandomThreshold) =>
                            (out = d.rnd /\ gen.first_token_id <= out
                                         /\ out <= gen.last_token_id)
                     /\ d.dice >= RandomThreshold => out = token

\* C9 witness: a sequence with a position rewritten to last_token_id by the
\* random branch at dice = 0.8 and a position masked at dice just below 0.8.
C9_Witness ==
    \E k \in DOMAIN results : \E i, j \in DOMAIN results[k][2] :
        /\ RandomlyReplaced(k, i)
        /\ draws[k][i].dice = MaskThreshold
        /\ results[k][3][i] = gen.last_token_id
        /\ ~AtOrAfterPadding(k, j)
        /\ IsSelected(draws[k][j])
        /\ draws[k][j].dice = MaskThreshold - 1
        /\ results[k][3][j] = gen.mask_token_id

-----------------------------------------------------------------------------
(* Properties of transformer_bert_model (SpecModel).                       *)

\* C8 (as claimed): with d_model divisible by num_heads the assembly raises
\* nothing and returns a model with three inputs and one output.
C8_AssemblySucceeds ==
    (model # NotCalled /\ model_args.d_model % model_args.num_heads = 0) =>
        /\ model.error = "none"
        /\ model.inputs = <<"concept_ids", "time_stamps", "mask">>
        /\ Len(model.outputs) = 1

-----------------------------------------------------------------------------
(* Properties of TimeAttention.call (SpecTime).                            *)

\* The bucket of (target t, context c): the clipped time delta, shifted.
BucketOf(t, c) ==
    LET delta == inputs.context_time_stamps[c] - inputs.target_time_stamps[t]
        h == layer.half_window_size
    IN  (IF delta < -h THEN -h ELSE IF delta > h THEN h ELSE delta) + h

\* The context positions in bucket b for target t.
ContextsIn(t, b) ==
    {c \in DOMAIN inputs.context_time_stamps : BucketOf(t, c) = b}

\* The learned weight of bucket b for the concept at target t.
WeightOf(t, b) == layer.embeddings[inputs.target_concepts[t]][b + 1]

RECURSIVE BiasSum(_, _)
BiasSum(t, cs) ==
    IF cs = {} THEN Frac(0, 1)
    ELSE LET c == CHOOSE x \in cs : TRUE
         IN  FracAdd(attention.next_input[t][c], BiasSum(t, cs \ {c}))

\* C10: before the mask, the bias of (t, c) is the weight of c's bucket for
\* t's concept divided by the number of contexts in that bucket; the biases
\* of a non-empty bucket sum to its weight; an empty bucket's normalized
\* weight is 0.
C10_BucketNormalized ==
    attention # NotCalled =>
        \A t \in DOMAIN inputs.target_time_stamps :
            /\ \A c \in DOMAIN inputs.context_time_stamps :
                 attention.next_input[t][c] =
                     Frac(WeightOf(t, BucketOf(t, c)),
                          Cardinality(ContextsIn(t, BucketOf(t, c))))
            /\ \A b \in 0..(layer.time_window_size - 1) :
                 IF ContextsIn(t, b) = {}
                 THEN attention.normalized_concept_time_attentions[t][b + 1]
                          = Frac(0, 1)
                 ELSE BiasSum(t, ContextsIn(t, b)) = Frac(WeightOf(t, b), 1)

\* C10 witness: for one target, a bucket with a non-zero weight holds two
\* contexts, and another bucket with a non-zero weight holds none.
C10_Witness ==
    /\ attention # NotCalled
    /\ \E t \in DOMAIN inputs.target_time_stamps :
         \E b1, b2 \in 0..(layer.time_window_size - 1) :
            /\ Cardinality(ContextsIn(t, b1)) = 2
            /\ WeightOf(t, b1) # 0
            /\ ContextsIn(t, b2) = {}
            /\ WeightOf(t, b2) # 0

\* The bucket index the claim gives to a time delta under half window h.
ClippedBucket(delta, h) ==
    (IF delta < -h THEN -h ELSE IF delta > h THEN h ELSE delta) + h

\* C11: with h = floor(time_window_size / 2) of the constructor's argument,
\* the one-hot vector of (target t, context c) has width 2h + 1, the width
\* of the learned vector, and its single 1 at bucket
\* clip(context_time - target_time, -h, +h) + h, which lies in 0..2h.
C11_BucketInWindow ==
    attention # NotCalled =>
        LET h == layer.time_window_size_argument \div 2
        IN  \A t \in DOMAIN inputs.target_time_stamps :
              /\ Len(layer.embeddings[inputs.target_concepts[t]]) = 2 * h + 1
              /\ \A c \in DOMAIN inputs.context_time_stamps :
                   LET bucket == ClippedBucket(inputs.context_time_stamps[c]
                                               - inputs.target_time_stamps[t], h)
                       hot == attention.time_delta_one_hot[t][c]
                   IN  /\ bucket \in 0..(2 * h)
                       /\ Len(hot) = 2 * h + 1
                       /\ \A b \in 0..(2 * h) :
                            hot[b + 1] = IF b = bucket THEN 1 ELSE 0

\* C11 witness: under a half window of at least 1, one call encodes a delta
\* of 0 in the centre bucket, a delta beyond +h in the last bucket and a
\* delta below -h in the first.
C11_Witness ==
    /\ attention # NotCalled
    /\ layer.half_window_size >= 1
    /\ \E t0, t1, t2 \in DOMAIN inputs.target_time_stamps :
         \E c0, c1, c2 \in DOMAIN inputs.context_time_stamps :
            /\ inputs.context_time_stamps[c0] - inputs.target_time_stamps[t0] = 0
            /\ attention.time_delta_one_hot[t0][c0][layer.half_window_size + 1] = 1
            /\ inputs.context_time_stamps[c1] - inputs.target_time_stamps[t1]
                   > layer.half_window_size
            /\ attention.time_delta_one_hot[t1][c1][layer.time_window_size] = 1
            /\ inputs.context_time_stamps[c2] - inputs.target_time_stamps[t2]
                   < -layer.half_window_size
            /\ attention.time_delta_one_hot[t2][c2][1] = 1

-----------------------------------------------------------------------------
(* Frame of generate_batches (Spec).                                       *)

\* C12: a batch request leaves every corpus sequence as it was, and channel
\* 0 of the combined label it yields holds the corpus sequences the batch
\* was taken from; so the corpus stays as constructed over any number of
\* requests, and a later pass works on the same ids as the first.
C12_CorpusUnchanged ==
    [][/\ concept_sequences' = concept_sequences
       /\ yielded'.kind = "batch"
       /\ DOMAIN YieldedSequences' = DOMAIN concept_sequence_batch'
       /\ \A k \in DOMAIN concept_sequence_batch' :
            YieldedSequences'[k] = concept_sequences[concept_sequence_batch'[k] + 1]]_vars

\* C12 witness: a corpus of one sequence is served a second time (or a
\* later even time), and the batch holds a rewritten id where the corpus
\* still holds its own.
C12_Witness ==
    /\ gen.data_size = 1
    /\ resumed = 0
    /\ yielded.kind = "batch"
    /\ \E i \in DOMAIN concept_sequences[1] :
         /\ yielded.inputs[1][1][i] # concept_sequences[1][i]
         /\ yielded.targets[1][1][i] = <<concept_sequences[1][i], 1>>

====
